---- MODULE Spec2Model ----
(***************************************************************************)
(* linalg::Matrix<T> (include/Matrix/matrix.h): a dense row-major grid     *)
(* held in m_matrix, a vector of row vectors.  A matrix is modelled as a   *)
(* sequence of rows, each a sequence of elements; the caller of the        *)
(* library holds matrices in named bindings and calls the constructors,    *)
(* transpose(), size(), operator*, operator==, isSame and operator<<.      *)
(* Source indices are 0-based; sequences here are 1-based, so m[i][j] of   *)
(* the source is m[i + 1][j + 1] below.                                    *)
(***************************************************************************)
EXTENDS Integers, Sequences, FiniteSets, TLC

VARIABLES store, bound, pc, out, lhs, rhs, res, i, k

vars == <<store, bound, pc, out, lhs, rhs, res, i, k>>

(* ------------------------------ bounds -------------------------------- *)

\* Largest number of elements, and of rows, of a sequence handed to a
\* constructor, and of a matrix kept in a binding.
MaxCells == 4

\* Element values the caller uses (T is an integer type).
Vals == {0, 1}

\* The caller's bindings.
Slot == {"A", "B"}

\* No binding: lhs and rhs outside a multiplication.
NoSlot == "-"

\* What a read of m_matrix[0].size() can yield when m_matrix is empty and
\* the process survives the read.
GarbageSizes == {0, 1, 2}

(* --------------------------- caller inputs ---------------------------- *)

\* Flat sequences: every sequence of at most MaxCells elements.
FlatInputs == UNION {[1..len -> Vals] : len \in 0..MaxCells}

\* (rows, cols) pairs of at most MaxCells elements, a zero dimension included.
DimInputs == {d \in (0..MaxCells) \X (0..MaxCells) : d[1] * d[2] <= MaxCells}

\* Every rectangular grid over Vals of such dimensions.
RectInputs == UNION {[1..d[1] -> [1..d[2] -> Vals]] : d \in DimInputs}

RECURSIVE LenSeqs(_, _)
\* The sequences of at most rows row lengths that sum to at most cells.
LenSeqs(rows, cells) ==
    IF rows = 0 THEN {<<>>}
    ELSE {<<>>} \cup UNION {{<<len>> \o rest : rest \in LenSeqs(rows - 1, cells - len)} :
                             len \in 0..cells}

\* Nested sequences: the rectangular grids, and for every sequence of row
\* lengths, ragged or not, the grid of those row lengths filled with zeros
\* (the constructor reads the sizes of the rows, never their elements).
NestedInputs ==
    RectInputs \cup
    {[r \in 1..Len(lens) |-> [c \in 1..lens[r] |-> 0]] : lens \in LenSeqs(MaxCells, MaxCells)}

(* ---------------------------- constructors ---------------------------- *)

\* Matrix(const T mat): m_matrix{1, std::vector<T>(1, mat)}
MatrixScalar(mat) == <<<<mat>>>>

\* Matrix(const std::vector<T>& mat): m_matrix{1, mat}
MatrixFlat(mat) == <<mat>>

\* Matrix(const size_t& row, const size_t& col, T value = 0):
\* m_matrix{row, std::vector<T>(col, value)}
MatrixFill(row, col, value) == [r \in 1..row |-> [c \in 1..col |-> value]]

\* if (m_matrix[row - 1].size() != m_matrix[row].size()), row counted from 0.
RowsDiffer(m, row) == Len(m[row]) # Len(m[row + 1])

\* NestedCheck with the loop left after its first iteration.
NestedCheckFirstPair(m, row) ==
    IF ~(row < Len(m)) THEN "ok"
    ELSE IF RowsDiffer(m, row) THEN "abort"
    ELSE "ok"

RECURSIVE NestedCheck(_, _)
\* for (int row = 1; row < m_matrix.size(); row++): "abort" at the first
\* adjacent pair of rows of different sizes, "ok" when the loop runs out.
NestedCheck(m, row) ==
    IF ~(row < Len(m)) THEN "ok"
    ELSE IF RowsDiffer(m, row) THEN "abort"
    ELSE NestedCheck(m, row + 1)

\* Matrix(const std::vector<std::vector<T>>& mat): m_matrix{mat}, then the check.
MatrixNested(mat) == NestedCheck(mat, 1)

(* ------------------------ reads of m_matrix[0] ------------------------ *)

\* m_matrix[0] is read without a check of m_matrix.size(): with no rows the
\* read is outside the vector.
ReadsPastEnd(m) == Len(m) = 0

\* The values m_matrix[0].size() can yield.
FirstRowSize(m) == IF ReadsPastEnd(m) THEN GarbageSizes ELSE {Len(m[1])}

(* ----------------------------- transpose ------------------------------ *)

\* TransposeWrite done in place as well: the receiver is written too.
TransposeWriteInPlace(st, ii, jj) ==
    LET w == [st EXCEPT !.res[jj + 1][ii + 1] = st.this[ii + 1][jj + 1]] IN
    IF jj + 1 <= Len(st.this) /\ ii + 1 <= Len(st.this[jj + 1])
    THEN [w EXCEPT !.this[jj + 1][ii + 1] = st.this[ii + 1][jj + 1]]
    ELSE w

\* res.m_matrix[j][i] = m_matrix[i][j]; st holds the receiver and res.
TransposeWrite(st, ii, jj) ==
    [st EXCEPT !.res[jj + 1][ii + 1] = st.this[ii + 1][jj + 1]]

RECURSIVE TransposeLoop(_, _, _)
\* for i < m_matrix.size(): for j < m_matrix[0].size(): the write above.
TransposeLoop(st, ii, jj) ==
    IF ~(ii < Len(st.this)) THEN st
    ELSE IF ~(jj < Len(st.this[1])) THEN TransposeLoop(st, ii + 1, 0)
    ELSE TransposeLoop(TransposeWrite(st, ii, jj), ii, jj + 1)

\* Matrix<T>::transpose(): res(m_matrix[0].size(), m_matrix.size()), then the
\* loops; cols0 is what m_matrix[0].size() yielded for the construction of res.
TransposeBody(this, cols0) ==
    TransposeLoop([this |-> this, res |-> MatrixFill(cols0, Len(this), 0)], 0, 0)

(* ------------------------------ equality ------------------------------ *)

\* std::vector<T>::operator==: equal sizes and equal elements in order.
VecEq(x, y) == Len(x) = Len(y) /\ \A n \in 1..Len(x) : x[n] = y[n]

\* OpEq without the comparison of the row sizes: rows compared over the
\* shorter one's length.
OpEqNoSize(m1, m2) ==
    /\ Len(m1) = Len(m2)
    /\ \A r \in 1..Len(m1) :
         \A n \in 1..Len(m1[r]) : n <= Len(m2[r]) => m1[r][n] = m2[r][n]

\* operator==(m1, m2): m1.m_matrix == m2.m_matrix, a vector of vectors.
OpEq(m1, m2) == Len(m1) = Len(m2) /\ \A r \in 1..Len(m1) : VecEq(m1[r], m2[r])

\* isSame(m1, m2): return (m1 == m2)
isSame(m1, m2) == OpEq(m1, m2)

(* ----------------------------- formatting ----------------------------- *)

RECURSIVE RowElems(_, _, _)
\* for j < mat.m_matrix[i].size(): output << mat.m_matrix[i][j] << ' '
RowElems(m, ii, jj) ==
    IF ~(jj < Len(m[ii + 1])) THEN <<>>
    ELSE <<ToString(m[ii + 1][jj + 1]), " ">> \o RowElems(m, ii, jj + 1)

RECURSIVE FirstRows(_, _)
\* for i < mat.m_matrix.size() - 1: "[ ", the row, "]", "\n "
FirstRows(m, ii) ==
    IF ~(ii < Len(m) - 1) THEN <<>>
    ELSE <<"[ ">> \o RowElems(m, ii, 0) \o <<"]", "\n ">> \o FirstRows(m, ii + 1)

\* for i = mat.m_matrix.size() - 1; i < mat.m_matrix.size(): "[ ", the row, "]"
LastRow(m) == <<"[ ">> \o RowElems(m, Len(m) - 1, 0) \o <<"]">>

\* operator<<(output, mat) for a matrix with a row: every `output << x` is one
\* token.  With no row, size() - 1 wraps around (size_t) and the first loop
\* reads m_matrix[0]: see Format.
FormatTokens(m) == <<"[">> \o FirstRows(m, 0) \o LastRow(m) \o <<"]", "\n">>

(* --------------------------- multiplication --------------------------- *)

\* DimsMismatch with > for !=.
DimsMismatchGreater(cols1, rows2) == cols1 > rows2

\* if (mat1.m_matrix[0].size() != mat2.m_matrix.size()) abort
DimsMismatch(cols1, rows2) == cols1 # rows2

\* MulWrite with = for +=.
MulWriteAssign(r, m1, m2, ii, kk, jj) ==
    [r EXCEPT ![ii + 1][jj + 1] = m1[ii + 1][kk + 1] * m2[kk + 1][jj + 1]]

\* res.m_matrix[i][j] += mat1.m_matrix[i][k] * mat2.m_matrix[k][j]
MulWrite(r, m1, m2, ii, kk, jj) ==
    [r EXCEPT ![ii + 1][jj + 1] = @ + m1[ii + 1][kk + 1] * m2[kk + 1][jj + 1]]

RECURSIVE InnerLoopSkipLast(_, _, _, _, _, _)
\* InnerLoop with the bound one short: the last column is never written.
InnerLoopSkipLast(r, m1, m2, ii, kk, jj) ==
    IF ~(jj < Len(r[ii + 1]) - 1) THEN r
    ELSE InnerLoopSkipLast(MulWrite(r, m1, m2, ii, kk, jj), m1, m2, ii, kk, jj + 1)

RECURSIVE InnerLoop(_, _, _, _, _, _)
\* for (int j = 0; j < res.m_matrix[i].size(); j++): the write above.
InnerLoop(r, m1, m2, ii, kk, jj) ==
    IF ~(jj < Len(r[ii + 1])) THEN r
    ELSE InnerLoop(MulWrite(r, m1, m2, ii, kk, jj), m1, m2, ii, kk, jj + 1)

\* The original implementation's write, the same statement in its k loop.
OrigWrite(r, m1, m2, ii, jj, kk) ==
    [r EXCEPT ![ii + 1][jj + 1] = @ + m1[ii + 1][kk + 1] * m2[kk + 1][jj + 1]]

RECURSIVE OrigK(_, _, _, _, _, _)
\* The original implementation's innermost loop, over k.
OrigK(r, m1, m2, ii, jj, kk) ==
    IF ~(kk < Len(m1[1])) THEN r
    ELSE OrigK(OrigWrite(r, m1, m2, ii, jj, kk), m1, m2, ii, jj, kk + 1)

RECURSIVE OrigJ(_, _, _, _, _)
\* The original implementation's middle loop, over j.
OrigJ(r, m1, m2, ii, jj) ==
    IF ~(jj < Len(r[ii + 1])) THEN r
    ELSE OrigJ(OrigK(r, m1, m2, ii, jj, 0), m1, m2, ii, jj + 1)

RECURSIVE OrigI(_, _, _, _)
\* The original implementation's outer loop, over i.
OrigI(r, m1, m2, ii) ==
    IF ~(ii < Len(r)) THEN r
    ELSE OrigI(OrigJ(r, m1, m2, ii, 0), m1, m2, ii + 1)

\* The original operator* (kept in a comment of the source), for operands
\* that pass its assert and have a row each.
OrigMultiply(m1, m2) == OrigI(MatrixFill(Len(m1), Len(m2[1]), 0), m1, m2, 0)

(* ------------------------------ the caller ---------------------------- *)

\* What the last call left: the operation, for a construction its form, its
\* argument and the binding it initialises, the kind of outcome, the value
\* returned, and whether the call read m_matrix[0] of a matrix with no row.
Outcome(op, form, arg, slot, kind, val, oob) ==
    [op |-> op, form |-> form, arg |-> arg, slot |-> slot,
     kind |-> kind, val |-> val, oob |-> oob]

Returned(op, kind, val, oob) == Outcome(op, "-", <<>>, "-", kind, val, oob)

\* A matrix the caller keeps: within the bounds of the inputs.
Storable(m) ==
    /\ Len(m) <= MaxCells
    /\ \A r \in 1..Len(m) : Len(m[r]) * Len(m) <= MaxCells
    /\ \A r \in 1..Len(m) : \A c \in 1..Len(m[r]) : m[r][c] \in Vals

\* The process ends (std::abort(), or a fault on a read past the end): its
\* matrices end with it, and no binding is left.
Ends(how, o) ==
    /\ pc' = how
    /\ out' = o
    /\ store' = [s \in Slot |-> <<>>]
    /\ bound' = {}
    /\ UNCHANGED <<lhs, rhs, res, i, k>>

\* A call returns to the caller and leaves the bindings as they are.
Returns(o) ==
    /\ out' = o
    /\ UNCHANGED <<store, bound, pc, lhs, rhs, res, i, k>>

\* A constructor completes: the binding s holds the new matrix.
Binds(s, m, o) ==
    /\ store' = [store EXCEPT ![s] = m]
    /\ bound' = bound \cup {s}
    /\ out' = o
    /\ UNCHANGED <<pc, lhs, rhs, res, i, k>>

Init ==
    /\ store = [s \in Slot |-> <<>>]
    /\ bound = {}
    /\ pc = "idle"
    /\ out = Returned("none", "none", <<>>, FALSE)
    /\ lhs = NoSlot
    /\ rhs = NoSlot
    /\ res = <<>>
    /\ i = 0
    /\ k = 0

\* linalg::Matrix<T> s{v}; a binding is declared once.
ConstructScalar(s, v) ==
    /\ pc = "idle"
    /\ s \notin bound
    /\ Binds(s, MatrixScalar(v),
             Outcome("construct", "scalar", v, s, "matrix", <<>>, FALSE))

\* linalg::Matrix<T> s{vec};
ConstructFlat(s, vec) ==
    /\ pc = "idle"
    /\ s \notin bound
    /\ Binds(s, MatrixFlat(vec),
             Outcome("construct", "flat", vec, s, "matrix", <<>>, FALSE))

\* linalg::Matrix<T> s{mat}; with mat a vector of vectors.
ConstructNested(s, mat) ==
    /\ pc = "idle"
    /\ s \notin bound
    /\ \/ /\ MatrixNested(mat) = "ok"
          /\ Binds(s, mat, Outcome("construct", "nested", mat, s, "matrix", <<>>, FALSE))
       \/ /\ MatrixNested(mat) = "abort"
          /\ Ends("aborted", Outcome("construct", "nested", mat, s, "abort", <<>>, FALSE))

\* linalg::Matrix<T> s{row, col, value};
ConstructFill(s, d, value) ==
    /\ pc = "idle"
    /\ s \notin bound
    /\ Binds(s, MatrixFill(d[1], d[2], value),
             Outcome("construct", "fill", <<d[1], d[2], value>>, s, "matrix", <<>>, FALSE))

\* s = <the matrix the last call returned>;
Assign(s) ==
    /\ pc = "idle"
    /\ out.kind = "matrix"
    /\ out.op # "construct"
    /\ Storable(out.val)
    /\ Binds(s, out.val, Outcome("assign", "-", <<>>, s, "assigned", <<>>, FALSE))

\* A.transpose()
Transpose ==
    /\ pc = "idle"
    /\ "A" \in bound
    /\ \/ \E cols0 \in FirstRowSize(store["A"]) :
            LET st == TransposeBody(store["A"], cols0) IN
            /\ store' = [store EXCEPT !["A"] = st.this]
            /\ out' = Returned("transpose", "matrix", st.res, ReadsPastEnd(store["A"]))
            /\ UNCHANGED <<bound, pc, lhs, rhs, res, i, k>>
       \/ /\ ReadsPastEnd(store["A"])
          /\ Ends("crashed", Returned("transpose", "crash", <<>>, TRUE))

\* A.transpose().transpose()
TransposeTwice ==
    /\ pc = "idle"
    /\ "A" \in bound
    /\ \/ \E cols0 \in FirstRowSize(store["A"]) :
            LET st == TransposeBody(store["A"], cols0) IN
            \/ \E cols1 \in FirstRowSize(st.res) :
                 /\ store' = [store EXCEPT !["A"] = st.this]
                 /\ out' = Returned("transpose2", "matrix",
                                    TransposeBody(st.res, cols1).res,
                                    ReadsPastEnd(store["A"]) \/ ReadsPastEnd(st.res))
                 /\ UNCHANGED <<bound, pc, lhs, rhs, res, i, k>>
            \/ /\ ReadsPastEnd(st.res)
               /\ Ends("crashed", Returned("transpose2", "crash", <<>>, TRUE))
       \/ /\ ReadsPastEnd(store["A"])
          /\ Ends("crashed", Returned("transpose2", "crash", <<>>, TRUE))

\* A.size()
Size ==
    /\ pc = "idle"
    /\ "A" \in bound
    /\ \/ \E cols0 \in FirstRowSize(store["A"]) :
            Returns(Returned("size", "size", <<Len(store["A"]), cols0>>,
                             ReadsPastEnd(store["A"])))
       \/ /\ ReadsPastEnd(store["A"])
          /\ Ends("crashed", Returned("size", "crash", <<>>, TRUE))

\* A == B
Equals ==
    /\ pc = "idle"
    /\ "A" \in bound
    /\ "B" \in bound
    /\ Returns(Returned("equals", "bool", OpEq(store["A"], store["B"]), FALSE))

\* isSame(A, B)
IsSame ==
    /\ pc = "idle"
    /\ "A" \in bound
    /\ "B" \in bound
    /\ Returns(Returned("isSame", "bool", isSame(store["A"], store["B"]), FALSE))

\* output << A.  With no row in A the first loop's bound, size() - 1, is the
\* largest size_t and its body reads m_matrix[0]: the process faults, or goes
\* on with what the read found.
Format ==
    /\ pc = "idle"
    /\ "A" \in bound
    /\ \/ /\ ~ReadsPastEnd(store["A"])
          /\ Returns(Returned("format", "text", FormatTokens(store["A"]), FALSE))
       \/ /\ ReadsPastEnd(store["A"])
          /\ Returns(Returned("format", "text", <<"[", "[ ", "garbage">>, TRUE))
       \/ /\ ReadsPastEnd(store["A"])
          /\ Ends("crashed", Returned("format", "crash", <<"[", "[ ">>, TRUE))

\* A * B, up to the construction of res: the check of the dimensions, then
\* Matrix<T> res(mat1.m_matrix.size(), mat2.m_matrix[0].size()).
MulBegin ==
    /\ pc = "idle"
    /\ "A" \in bound
    /\ "B" \in bound
    /\ \/ \E cols1 \in FirstRowSize(store["A"]) :
            \/ /\ DimsMismatch(cols1, Len(store["B"]))
               /\ Ends("aborted", Returned("multiply", "abort", <<>>, ReadsPastEnd(store["A"])))
            \/ /\ ~DimsMismatch(cols1, Len(store["B"]))
               /\ \E cols2 \in FirstRowSize(store["B"]) :
                    /\ res' = MatrixFill(Len(store["A"]), cols2, 0)
                    /\ out' = Returned("multiply", "running", <<>>,
                                       ReadsPastEnd(store["A"]) \/ ReadsPastEnd(store["B"]))
               /\ pc' = "mul"
               /\ lhs' = "A"
               /\ rhs' = "B"
               /\ i' = 0
               /\ k' = 0
               /\ UNCHANGED <<store, bound>>
            \/ /\ ~DimsMismatch(cols1, Len(store["B"]))
               /\ ReadsPastEnd(store["B"])
               /\ Ends("crashed", Returned("multiply", "crash", <<>>, TRUE))
       \/ /\ ReadsPastEnd(store["A"])
          /\ Ends("crashed", Returned("multiply", "crash", <<>>, TRUE))

\* The body of the k loop for the current i and k: the whole j loop, then k++.
MulInner ==
    /\ pc = "mul"
    /\ i < Len(res)
    /\ k < Len(store[lhs][1])
    /\ res' = InnerLoop(res, store[lhs], store[rhs], i, k, 0)
    /\ k' = k + 1
    /\ UNCHANGED <<store, bound, pc, out, lhs, rhs, i>>

\* The k loop ends for the current i: i++, and k starts again at 0.
MulNextRow ==
    /\ pc = "mul"
    /\ i < Len(res)
    /\ ~(k < Len(store[lhs][1]))
    /\ i' = i + 1
    /\ k' = 0
    /\ UNCHANGED <<store, bound, pc, out, lhs, rhs, res>>

\* The i loop ends: return res.
MulReturn ==
    /\ pc = "mul"
    /\ ~(i < Len(res))
    /\ pc' = "idle"
    /\ out' = [out EXCEPT !.kind = "matrix", !.val = res]
    /\ res' = <<>>
    /\ i' = 0
    /\ k' = 0
    /\ lhs' = NoSlot
    /\ rhs' = NoSlot
    /\ UNCHANGED <<store, bound>>

Next ==
    \/ \E s \in Slot : \E v \in Vals : ConstructScalar(s, v)
    \/ \E s \in Slot : \E vec \in FlatInputs : ConstructFlat(s, vec)
    \/ \E s \in Slot : \E mat \in NestedInputs : ConstructNested(s, mat)
    \/ \E s \in Slot : \E d \in DimInputs : \E v \in Vals : ConstructFill(s, d, v)
    \/ \E s \in Slot : Assign(s)
    \/ Transpose
    \/ TransposeTwice
    \/ Size
    \/ Equals
    \/ IsSame
    \/ Format
    \/ MulBegin
    \/ MulInner
    \/ MulNextRow
    \/ MulReturn

Spec == Init /\ [][Next]_vars

(* ------------------------------ properties ---------------------------- *)

\* size() is defined for m: m_matrix[0] exists.
HasShape(m) == Len(m) >= 1

\* At least one row, at least one column, every row of the same length.
Rectangular(m) ==
    /\ Len(m) >= 1
    /\ Len(m[1]) >= 1
    /\ \A r \in 1..Len(m) : Len(m[r]) = Len(m[1])

RECURSIVE Sigma(_, _, _, _, _)
\* The sum over t = 1..n of m1[r][t] * m2[t][c], from zero, t ascending.
Sigma(m1, m2, r, c, n) ==
    IF n = 0 THEN 0 ELSE Sigma(m1, m2, r, c, n - 1) + m1[r][n] * m2[n][c]

\* The row length of m1: the trip count of the k loop.
InnerDim(m1) == IF HasShape(m1) THEN Len(m1[1]) ELSE 0

\* Same row count, same column count, equal elements at every index.
SameShapeAndElements(m1, m2) ==
    /\ Len(m1) = Len(m2)
    /\ HasShape(m1) =>
         /\ Len(m1[1]) = Len(m2[1])
         /\ \A r \in 1..Len(m1) : \A c \in 1..Len(m1[1]) : m1[r][c] = m2[r][c]

RECURSIVE ClaimedElems(_, _, _)
ClaimedElems(m, r, c) ==
    IF c > Len(m[r]) THEN <<>>
    ELSE <<ToString(m[r][c]), " ">> \o ClaimedElems(m, r, c + 1)

RECURSIVE ClaimedRows(_, _)
\* The rows in order, each "[ e0 e1 ... en ]", a separator after every row
\* but the last.
ClaimedRows(m, r) ==
    IF r > Len(m) THEN <<>>
    ELSE <<"[ ">> \o ClaimedElems(m, r, 1) \o <<"]">>
         \o (IF r < Len(m) THEN <<"\n ">> ELSE <<>>) \o ClaimedRows(m, r + 1)

\* The layout of a rendering: the outer brackets around the rows, and the
\* line end that closes the output.
ClaimedLayout(m) == <<"[">> \o ClaimedRows(m, 1) \o <<"]", "\n">>

\* The number of row separators in a rendering.
Separators(text) == Cardinality({n \in 1..Len(text) : text[n] = "\n "})

\* C1: every matrix that exists, in a binding or returned by transpose or
\* multiply, has at least one row, at least one column and rows of one length.
C1_AlwaysRectangularNonEmpty ==
    /\ \A s \in bound : Rectangular(store[s])
    /\ (out.kind = "matrix" /\ out.op # "construct") => Rectangular(out.val)

\* C2: when A of shape (m, n) and B of shape (n, k) have been multiplied, the
\* matrix returned has m rows of k elements and its element [r][c] is the sum
\* over t of A[r][t] * B[t][c], accumulated from zero.
C2_MultiplyIsDotProducts ==
    (out.op = "multiply" /\ out.kind = "matrix"
        /\ HasShape(store["A"]) /\ HasShape(store["B"])) =>
    /\ Len(store["A"][1]) = Len(store["B"])
    /\ Len(out.val) = Len(store["A"])
    /\ \A r \in 1..Len(out.val) :
         /\ Len(out.val[r]) = Len(store["B"][1])
         /\ \A c \in 1..Len(out.val[r]) :
              out.val[r][c] = Sigma(store["A"], store["B"], r, c, Len(store["B"]))

C2_Witness ==
    /\ out.op = "multiply"
    /\ out.kind = "matrix"
    /\ store["A"] = <<<<1, 1>>, <<0, 1>>>>
    /\ store["B"] = <<<<1, 0>>, <<1, 1>>>>
    /\ out.val = <<<<2, 1>>, <<1, 1>>>>

\* C3: a call of operator* on A (with a row, so that it has a column count)
\* and B ends in the abort exactly when A's column count differs from B's row
\* count; the abort comes before res exists, and nothing runs after it.
C3_MismatchAbortsAndOnlyMismatch ==
    [][/\ pc # "aborted"
       /\ (pc = "idle" /\ pc' # "idle" /\ out'.op = "multiply" /\ HasShape(store["A"])) =>
            /\ (Len(store["A"][1]) # Len(store["B"])) <=> (pc' = "aborted")
            /\ pc' = "aborted" => (out'.kind = "abort" /\ res' = <<>>)]_vars

C3_Witness ==
    /\ pc = "aborted"
    /\ out.op = "multiply"
    /\ out.kind = "abort"
    /\ ~out.oob

\* C4: construction from a nested sequence aborts, and binds no matrix, exactly
\* when two of its rows, adjacent or not, differ in length; otherwise the
\* binding holds as many rows as the input, each of the input's row length,
\* with the input's elements.
C4_NestedAbortsIffRagged ==
    (out.op = "construct" /\ out.form = "nested") =>
    /\ (out.kind = "abort") <=>
         (\E r1, r2 \in 1..Len(out.arg) : Len(out.arg[r1]) # Len(out.arg[r2]))
    /\ out.kind = "abort" => (pc = "aborted" /\ bound = {})
    /\ out.kind # "abort" =>
         /\ out.kind = "matrix"
         /\ out.slot \in bound
         /\ Len(store[out.slot]) = Len(out.arg)
         /\ \A r \in 1..Len(out.arg) :
              /\ Len(store[out.slot][r]) = Len(out.arg[1])
              /\ \A c \in 1..Len(out.arg[1]) : store[out.slot][r][c] = out.arg[r][c]

C4_Witness ==
    /\ out.op = "construct"
    /\ out.form = "nested"
    /\ out.kind = "abort"
    /\ Len(out.arg) = 3
    /\ Len(out.arg[1]) = Len(out.arg[2])
    /\ Len(out.arg[3]) # Len(out.arg[1])

\* C5: for A of shape (r, c), transpose returns a matrix whose size() is
\* (c, r) and whose element [j][i] is A's element [i][j].
C5_TransposeShapeAndElements ==
    (out.op = "transpose" /\ "A" \in bound /\ HasShape(store["A"])) =>
    /\ out.kind = "matrix"
    /\ HasShape(out.val)
    /\ Len(out.val) = Len(store["A"][1])
    /\ Len(out.val[1]) = Len(store["A"])
    /\ \A r \in 1..Len(store["A"]) : \A c \in 1..Len(store["A"][1]) :
         out.val[c][r] = store["A"][r][c]

\* C6: transposing twice completes normally and returns a matrix equal to A.
C6_TransposeRoundTrip ==
    out.op = "transpose2" =>
    /\ out.kind = "matrix"
    /\ ~out.oob
    /\ out.val = store["A"]

\* C7: A == B and isSame(A, B) return, and never fail; they return true
\* exactly when A and B have the same shape and equal elements everywhere, so
\* false when the shapes differ and true when B equals A; and isSame returns
\* what == returns.
C7_EqualityIsShapeAndElements ==
    out.op \in {"equals", "isSame"} =>
    /\ out.kind = "bool"
    /\ pc = "idle"
    /\ out.val <=> SameShapeAndElements(store["A"], store["B"])
    /\ store["A"] = store["B"] => out.val
    /\ out.val = OpEq(store["A"], store["B"])

C7_Witness ==
    /\ out.op = "isSame"
    /\ out.val = FALSE
    /\ store["A"] = <<<<0, 1>>, <<1, 1>>>>
    /\ store["B"] = <<<<0, 1>>, <<1, 0>>>>

\* C8: a binding changes only when the caller constructs it or assigns to it;
\* transpose, multiply, ==, isSame, size and formatting leave every binding as
\* it was (the end of the process apart, which ends the matrices too).
C8_OperandsUnchanged ==
    [][\A s \in Slot :
         (store'[s] # store[s] \/ (s \in bound') # (s \in bound)) =>
            \/ out'.op \in {"construct", "assign"} /\ out'.slot = s
            \/ pc' \in {"aborted", "crashed"}]_vars

C8_Witness ==
    /\ out.op = "transpose"
    /\ out.kind = "matrix"
    /\ store["A"] = <<<<0, 1>>, <<0, 0>>>>
    /\ out.val = <<<<0, 0>>, <<1, 0>>>>

\* C9: formatting A emits the opening bracket, the rows in order each as
\* "[ e0 e1 ... en ]" with a separator after every row but the last (one less
\* than the number of rows), and the closing bracket, and reads no element
\* outside A.
C9_FormatLayout ==
    out.op = "format" =>
    /\ out.kind = "text"
    /\ ~out.oob
    /\ out.val = ClaimedLayout(store["A"])
    /\ Separators(out.val) = Len(store["A"]) - 1

\* C10: inside operator*, whenever the k loop of row i is at k, the rows of
\* res before i hold their final dot products, the rows after i are zero and
\* row i holds for every column the sum over t < k; and the matrix returned is
\* the one the original i-j-k loop nest returns.
C10_LoopInvariantAndOrderEquivalence ==
    /\ pc = "mul" =>
         /\ i <= Len(res)
         /\ k <= InnerDim(store[lhs])
         /\ Len(res) = Len(store[lhs])
         /\ \A r \in 1..Len(res) : \A c \in 1..Len(res[r]) :
              res[r][c] =
                 IF r - 1 < i THEN Sigma(store[lhs], store[rhs], r, c, InnerDim(store[lhs]))
                 ELSE IF r - 1 > i THEN 0
                 ELSE Sigma(store[lhs], store[rhs], r, c, k)
    /\ (out.op = "multiply" /\ out.kind = "matrix"
          /\ HasShape(store["A"]) /\ HasShape(store["B"])) =>
         out.val = OrigMultiply(store["A"], store["B"])

C10_Witness ==
    /\ pc = "mul"
    /\ i = 1
    /\ k = 1
    /\ Len(res) = 2
    /\ res[1] = <<2, 1>>
    /\ res[2] = <<1, 0>>

====
